---- MODULE Spec2Model ----
(***************************************************************************)
(* Test-configuration pipeline of the dashboard: generate_tests derives    *)
(* one Test per distinct scenario set of a requirements feed, prune_tests  *)
(* strips requirements that the sufficiency feed does not certify for the  *)
(* Test's configuration.  Identifiers and scenario strings are sequences   *)
(* of characters, so that str.split, frozenset and sorted are modelled by  *)
(* what they compute.                                                      *)
(***************************************************************************)
EXTENDS Integers, Sequences, FiniteSets, TLC

VARIABLES
  pc,       \* "input", "generated", "regenerated", "raised" or "pruned"
  feed,     \* bindings of the requirements feed
  tests,    \* the list generate_tests returned (tests.json)
  uuidCtr,  \* number of uuid4 values drawn so far
  suff,     \* bindings of the sufficiency feed given to prune_tests
  pruned,   \* the list prune_tests mutated and returned
  opc,      \* position in OptimizeTestOrder.run and in the cost report
  optIn,    \* entry point, args, cost map file and tests file of the run
  optTests, \* run's list tests: the empty configuration, then the input
  tsp,      \* the TSP2Opt object: weights, tour, cost
  loop,     \* locals of TSP2Opt.optimize: found_improvement, i, j
  order,    \* run's list order: the tour rotated to start at the test 0
  result,   \* what the entry point returned
  report    \* the baseline sequence and the two cost summaries

genVars == <<pc, feed, tests, uuidCtr, suff, pruned>>

optVars == <<opc, optIn, optTests, tsp, loop, order, result, report>>

vars == <<pc, feed, tests, uuidCtr, suff, pruned,
          opc, optIn, optTests, tsp, loop, order, result, report>>

(* ------------------------------ bounds --------------------------------- *)
\* longest requirements feed read before generate_tests runs
MaxFeed == 3
\* longest requirements feed in the pruning specification
MaxPruneFeed == 2
\* longest sufficiency feed
MaxSuff == 2
\* most tests in the file given to optimize_test_order
MaxTests == 4
\* most tests in a file given to OptimizeTestOrder.run with resort or
\* concorde on
MaxArgTests == 2
\* longest requirements feed of a whole rendering
MaxRenderFeed == 2

(* --------------------------- strings and ids --------------------------- *)
\* code points of the characters that occur in ids and scenario strings
Ord == [c \in {",", "1", "2", "3", "9", "q", "r"} |->
          CASE c = "," -> 44 [] c = "1" -> 49 [] c = "2" -> 50
            [] c = "3" -> 51 [] c = "9" -> 57 [] c = "q" -> 113
            [] c = "r" -> 114]

\* JSON null, and a key that is not present in the record
NoneVal == <<"None">>
Absent == <<"absent">>

Range(s) == {s[i] : i \in 1..Len(s)}

\* Python's ordering of str: lexicographic by code point
LexLess(a, b) ==
  \/ \E i \in 1..Len(a) :
        /\ i <= Len(b)
        /\ \A j \in 1..(i - 1) : a[j] = b[j]
        /\ Ord[a[i]] < Ord[b[i]]
  \/ /\ Len(a) < Len(b)
     /\ \A j \in 1..Len(a) : a[j] = b[j]

\* sorted(S) for a set of strings
RECURSIVE Sorted(_)
Sorted(S) ==
  IF S = {} THEN <<>>
  ELSE LET m == CHOOSE x \in S : \A y \in S : x = y \/ LexLess(x, y)
       IN  <<m>> \o Sorted(S \ {m})

\* s.split(","): the pieces between commas, empty pieces included
RECURSIVE Split(_)
Split(s) ==
  IF \A i \in 1..Len(s) : s[i] # ","
  THEN <<s>>
  ELSE LET c == CHOOSE i \in 1..Len(s) :
                   s[i] = "," /\ \A j \in 1..(i - 1) : s[j] # ","
       IN  <<SubSeq(s, 1, c - 1)>> \o Split(SubSeq(s, c + 1, Len(s)))

\* the string taken as one scenario, without splitting it
ScenarioSetNoSplit(s) == {s}

\* frozenset(value.split(","))
ScenarioSet(s) == Range(Split(s))

(* ------------------------------ inputs --------------------------------- *)
ReqIds == {<<"r", "1">>, <<"r", "2">>}
Quantities == {<<"q", "1">>, <<"q", "2">>}
ScenarioStrings == { <<"1">>, <<"1", ",", "2">>, <<"2", ",", "1">>,
                     <<"1", ",", "2", ",", "3">> }

\* the (requirement, quantity) pairs of the feed: r1 and r2 share q1, and
\* r2 is also bound to q2
ReqQuantity == {<<<<"r", "1">>, <<"q", "1">>>>,
                <<<<"r", "2">>, <<"q", "1">>>>,
                <<<<"r", "2">>, <<"q", "2">>>>}

\* bindings of the requirements feed: the well-formed ones, one with a
\* null quantity and one without the quaID key
Bindings ==
  {[reqName |-> rq[1], quaID |-> rq[2], scenarios |-> str] :
     rq \in ReqQuantity, str \in ScenarioStrings}
  \cup {[reqName |-> <<"r", "1">>, quaID |-> NoneVal, scenarios |-> <<"1">>],
        [reqName |-> <<"r", "2">>, quaID |-> Absent, scenarios |-> <<"1">>]}

\* bindings of the sufficiency feed; r9 is a requirement no test knows
SuffBindings ==
  [reqName : ReqIds \cup {<<"r", "9">>},
   scenarios : {<<"1">>, <<"2", ",", "1">>}]

RECURSIVE SeqsUpTo(_, _)
SeqsUpTo(S, n) ==
  IF n = 0 THEN {<<>>}
  ELSE LET shorter == SeqsUpTo(S, n - 1)
       IN  shorter \cup {Append(s, x) : s \in shorter, x \in S}

(* ---------------------------- generate_tests --------------------------- *)
\* the indexes before the first binding is read
EmptyIndex ==
  [raised |-> FALSE, scenario_sets_list |-> <<>>,
   rqts_by_ss |-> <<>>, rqts_by_qty |-> <<>>, qty_by_rqt |-> <<>>]

\* defaultdict lookup
Lookup(d, k, default) == IF k \in DOMAIN d THEN d[k] ELSE default

\* one iteration of the loop over the bindings
ReadBinding(ix, rh) ==
  IF ix.raised THEN ix
  ELSE IF rh.reqName = Absent \/ rh.quaID = Absent
  THEN [ix EXCEPT !.raised = TRUE]
  ELSE IF rh.reqName = NoneVal \/ rh.quaID = NoneVal
  THEN ix
  ELSE IF rh.scenarios = Absent \/ rh.scenarios = NoneVal
  THEN [ix EXCEPT !.raised = TRUE]
  ELSE
    LET ss == ScenarioSet(rh.scenarios)
        old == Lookup(ix.rqts_by_ss, ss, <<>>)
    IN  [raised |-> FALSE,
         scenario_sets_list |->
            IF ss \in Range(ix.scenario_sets_list)
            THEN ix.scenario_sets_list
            ELSE Append(ix.scenario_sets_list, ss),
         rqts_by_ss |->
            (ss :> (IF rh.reqName \in Range(old) THEN old
                    ELSE Append(old, rh.reqName))) @@ ix.rqts_by_ss,
         rqts_by_qty |->
            (rh.quaID :> (Lookup(ix.rqts_by_qty, rh.quaID, {})
                           \cup {rh.reqName})) @@ ix.rqts_by_qty,
         qty_by_rqt |-> (rh.reqName :> rh.quaID) @@ ix.qty_by_rqt]

RECURSIVE BuildIndex(_)
BuildIndex(requirements) ==
  IF requirements = <<>> THEN EmptyIndex
  ELSE ReadBinding(BuildIndex(SubSeq(requirements, 1, Len(requirements) - 1)),
                   requirements[Len(requirements)])

\* only the maximal strict subsets, as in a minimal (Hasse) graph
SuccessorsMaximal(ix, ss) ==
  LET below == {v1 \in Range(ix.scenario_sets_list) : v1 \subseteq ss /\ v1 # ss}
  IN  {v1 \in below : \A v2 \in below : ~(v1 \subseteq v2 /\ v1 # v2)}

\* an edge in both directions between comparable sets
SuccessorsComparable(ix, ss) ==
  {v1 \in Range(ix.scenario_sets_list) :
     v1 # ss /\ (v1 \subseteq ss \/ ss \subseteq v1)}

\* g.successors(ss): an edge leads from v2 to every v1 with v1 < v2
Successors(ix, ss) ==
  {v1 \in Range(ix.scenario_sets_list) : v1 \subseteq ss /\ v1 # ss}

\* str(config).replace("'", '"')
RECURSIVE DigestItems(_)
DigestItems(config) ==
  IF config = <<>> THEN <<>>
  ELSE IF Len(config) = 1 THEN <<"\"">> \o config[1] \o <<"\"">>
  ELSE <<"\"">> \o config[1] \o <<"\"", ",", " ">> \o DigestItems(Tail(config))

DigestString(config) == <<"[">> \o DigestItems(config) \o <<"]">>

\* hashlib.md5(...).hexdigest(), taken to be free of collisions
Md5(s) == <<"md5">> \o s

\* rqmts: the direct requirements and those of every successor
Rqmts(ix, ss) ==
  Range(ix.rqts_by_ss[ss]) \cup
  UNION {Range(ix.rqts_by_ss[adj]) : adj \in Successors(ix, ss)}

\* qh: for every quantity of a requirement in rqmts, its requirements
QuantityMap(ix, rqmts) ==
  LET quantities == {ix.qty_by_rqt[r] : r \in rqmts \cap DOMAIN ix.qty_by_rqt}
  IN  [q \in quantities |->
         [requirements |-> Sorted(ix.rqts_by_qty[q] \cap rqmts)]]

\* every quantity of the map counted as direct
QuantitiesDirectAll(qh, rqmts_direct) == Sorted(DOMAIN qh)

\* quantities_direct: the quantities with a requirement in rqmts_direct
QuantitiesDirect(qh, rqmts_direct) ==
  SelectSeq(Sorted(DOMAIN qh),
            LAMBDA q : \E r \in Range(qh[q].requirements) : r \in rqmts_direct)

\* the digest taken over the scenarios together with the uuid
TestObjUuidDigest(ix, ss, uuid) ==
  LET qh == QuantityMap(ix, Rqmts(ix, ss))
      config == Sorted(ss)
  IN  [uuid |-> uuid,
       config_digest |-> Md5(DigestString(config) \o <<uuid>>),
       scenarios |-> config,
       quantities |-> qh,
       requirements_direct |-> ix.rqts_by_ss[ss],
       quantities_direct |-> QuantitiesDirect(qh, Range(ix.rqts_by_ss[ss]))]

\* the body of the loop that builds one test object
TestObj(ix, ss, uuid) ==
  LET qh == QuantityMap(ix, Rqmts(ix, ss))
      config == Sorted(ss)
  IN  [uuid |-> uuid,
       config_digest |-> Md5(DigestString(config)),
       scenarios |-> config,
       quantities |-> qh,
       requirements_direct |-> ix.rqts_by_ss[ss],
       quantities_direct |-> QuantitiesDirect(qh, Range(ix.rqts_by_ss[ss]))]

\* generate_tests(data); uuid4 values are fresh, drawn here from a counter
GenerateTests(requirements, ctr) ==
  LET ix == BuildIndex(requirements)
  IN  IF ix.raised
      THEN [raised |-> TRUE, tests |-> <<>>]
      ELSE [raised |-> FALSE,
            tests |-> [k \in 1..Len(ix.scenario_sets_list) |->
                         TestObj(ix, ix.scenario_sets_list[k], ctr + k)]]

(* ----------------------------- prune_tests ----------------------------- *)
\* sufficients: every binding overwrites the entry of its requirement
RECURSIVE Sufficients(_)
Sufficients(bindings) ==
  IF bindings = <<>> THEN <<>>
  ELSE LET sh == bindings[Len(bindings)]
       IN  (sh.reqName :> {ScenarioSet(sh.scenarios)})
             @@ Sufficients(SubSeq(bindings, 1, Len(bindings) - 1))

\* a requirement kept when the configuration is contained in a certified set
KeepRequirementsSubset(sufficients, config, requirements) ==
  SelectSeq(requirements,
            LAMBDA r_id : IF r_id \in DOMAIN sufficients
                          THEN \E c \in sufficients[r_id] : config \subseteq c
                          ELSE TRUE)

\* a requirement without a sufficiency record dropped as well
KeepRequirementsKnownOnly(sufficients, config, requirements) ==
  SelectSeq(requirements,
            LAMBDA r_id : /\ r_id \in DOMAIN sufficients
                          /\ config \in sufficients[r_id])

\* keep_requirements of one quantity of a test with configuration config
KeepRequirements(sufficients, config, requirements) ==
  SelectSeq(requirements,
            LAMBDA r_id : IF r_id \in DOMAIN sufficients
                          THEN config \in sufficients[r_id]
                          ELSE TRUE)

\* the quantity map after the requirements are filtered and the
\* quantities in drop_quantities are deleted
PruneQuantities(sufficients, config, quantities) ==
  LET kept == [q_id \in DOMAIN quantities |->
                 KeepRequirements(sufficients, config,
                                  quantities[q_id].requirements)]
      drop_quantities == {q_id \in DOMAIN quantities : kept[q_id] = <<>>}
  IN  [q_id \in DOMAIN quantities \ drop_quantities |->
         [requirements |-> kept[q_id]]]

\* quantities_direct brought in line with the pruned quantity map
PruneTestUpdatingDirect(sufficients, test) ==
  LET quantities == PruneQuantities(sufficients, Range(test.scenarios),
                                    test.quantities)
  IN  [test EXCEPT !.quantities = quantities,
                   !.quantities_direct =
                      SelectSeq(test.quantities_direct,
                                LAMBDA q : q \in DOMAIN quantities)]

\* the body of the loop over the tests
PruneTest(sufficients, test) ==
  [test EXCEPT !.quantities =
     PruneQuantities(sufficients, Range(test.scenarios), test.quantities)]

\* list.remove(x): delete the first element equal to x
RemoveFirst(list, x) ==
  IF \A i \in 1..Len(list) : list[i] # x THEN list
  ELSE LET k == CHOOSE i \in 1..Len(list) :
                   list[i] = x /\ \A j \in 1..(i - 1) : list[j] # x
       IN  SubSeq(list, 1, k - 1) \o SubSeq(list, k + 1, Len(list))

\* removal while scanning the list: the test after a removed one is skipped
RECURSIVE RemoveAllSkipping(_, _)
RemoveAllSkipping(list, drop_tests) ==
  IF drop_tests = <<>> THEN list
  ELSE RemoveAllSkipping(RemoveFirst(list, Head(drop_tests)),
                         IF Len(drop_tests) >= 2
                         THEN Tail(Tail(drop_tests)) ELSE <<>>)

RECURSIVE RemoveAll(_, _)
RemoveAll(list, drop_tests) ==
  IF drop_tests = <<>> THEN list
  ELSE RemoveAll(RemoveFirst(list, Head(drop_tests)), Tail(drop_tests))

\* prune_tests(tests_data, sufficiency_data)
PruneTests(tests_data, sufficiency_data) ==
  LET sufficients == Sufficients(sufficiency_data)
      mutated == [i \in 1..Len(tests_data) |->
                    PruneTest(sufficients, tests_data[i])]
      drop_tests == SelectSeq(mutated, LAMBDA t : DOMAIN t.quantities = {})
  IN  RemoveAll(mutated, drop_tests)

(* ------------------ inputs of the optimizer and reporter --------------- *)
\* scenario sets of the tests in pruned_tests.json
OptScenarioSets ==
  { {<<"1">>}, {<<"2">>}, {<<"1">>, <<"2">>}, {<<"1">>, <<"3">>},
    {<<"1">>, <<"2">>, <<"3">>} }

\* the quantities map of the test with scenario set ss; q9 has no cost entry
OptQuantities(ss) ==
  LET q1 == <<"q", "1">>
      q2 == <<"q", "2">>
      q9 == <<"q", "9">>
      r1 == [requirements |-> << <<"r", "1">> >>]
      r2 == [requirements |-> << <<"r", "2">> >>]
  IN  CASE ss = {<<"1">>} -> (q1 :> r1)
        [] ss = {<<"2">>} -> (q9 :> r2)
        [] ss = {<<"1">>, <<"2">>} -> (q1 :> r1) @@ (q2 :> r2)
        [] OTHER -> <<>>

\* a test object as generate_tests writes it and prune_tests leaves it
PrunedTest(ss, uuid) ==
  LET qh == OptQuantities(ss)
  IN  [uuid |-> uuid,
       config_digest |-> Md5(DigestString(Sorted(ss))),
       scenarios |-> Sorted(ss),
       quantities |-> qh,
       requirements_direct |-> << <<"r", "1">> >>,
       quantities_direct |-> Sorted(DOMAIN qh)]

\* the tests files with at most max tests: distinct scenario sets, and
\* the uuid of a test drawn fresh, here its position in the file
TestsFiles(max) ==
  { [k \in 1..Len(sets) |-> PrunedTest(sets[k], k)] :
      sets \in { q \in SeqsUpTo(OptScenarioSets, max) :
                   \A a, b \in 1..Len(q) : a # b => q[a] # q[b] } }

\* the cost map files; scenario 3 and quantity q9 are in none of them
CostMaps ==
  { [scenarios |-> (<<"1">> :> 10),
     observations |-> (<<"q", "1">> :> 4)],
    [scenarios |-> (<<"1">> :> 5) @@ (<<"2">> :> 3),
     observations |-> (<<"q", "1">> :> 2) @@ (<<"q", "2">> :> 1)],
    [scenarios |-> (<<"1">> :> 1) @@ (<<"2">> :> 6),
     observations |-> <<>>] }

\* the orders sorted(tests_data, key=lambda x: random.random()) can give
Shuffles(tests_data) ==
  { [k \in 1..Len(tests_data) |-> tests_data[perm[k]]] :
      perm \in { f \in [1..Len(tests_data) -> 1..Len(tests_data)] :
                   \A a, b \in 1..Len(tests_data) : a # b => f[a] # f[b] } }

(* -------------------------- optimize_test_order ------------------------ *)
\* a cost map file and a tests file whose content json.load rejects
MalformedCostMap == [malformed |-> TRUE]
MalformedTests == <<[malformed |-> TRUE]>>

\* what a call has given back: nothing yet, the integer 1, or an exception
NoResult == [type |-> "none"]
IntOne == [type |-> "int", value |-> 1]
Raised(error) == [type |-> "raised", error |-> error]

\* the configuration inserted at the head of the list
EmptyConfiguration == [id |-> 0, scenarios |-> <<>>, quantities |-> <<>>]

\* sum of f[x] over the elements of a set
RECURSIVE SumOver(_, _)
SumOver(S, f) ==
  IF S = {} THEN 0
  ELSE LET x == CHOOSE y \in S : TRUE
       IN  f[x] + SumOver(S \ {x}, f)

\* sum of the entries of a list of numbers
RECURSIVE SumSeq(_)
SumSeq(list) == IF list = <<>> THEN 0 ELSE Head(list) + SumSeq(Tail(list))

\* a lookup that prices an unknown key at 1
GetDefaultOne(cost_map, key) ==
  IF key \in DOMAIN cost_map THEN cost_map[key] ELSE 1

\* cost_map.get(key, 0)
Get(cost_map, key) == IF key \in DOMAIN cost_map THEN cost_map[key] ELSE 0

\* the entry counting only the scenarios to apply
WeightOfApplyOnly(tests_list, cost_map, i, j) ==
  LET si == Range(tests_list[i + 1].scenarios)
      sj == Range(tests_list[j + 1].scenarios)
  IN  SumOver(sj \ si, [e \in sj \ si |-> Get(cost_map, e)])

\* the entry of make_weights for the tests at positions i and j
WeightOf(tests_list, cost_map, i, j) ==
  LET si == Range(tests_list[i + 1].scenarios)
      sj == Range(tests_list[j + 1].scenarios)
      apply == sj \ si
      retract == si \ sj
  IN  SumOver(apply \cup retract, [e \in apply \cup retract |-> Get(cost_map, e)])

\* make_weights: row i holds the columns 0..i
MakeWeights(tests_list, cost_map) ==
  [i \in 0..(Len(tests_list) - 1) |->
     [j \in 0..i |-> WeightOf(tests_list, cost_map, i, j)]]

\* the row and the column TSP2Opt.distance reads for the pair (i, j)
DistanceCell(i, j) == IF j < i THEN <<i, j>> ELSE <<j, i>>

\* TSP2Opt.distance
Distance(weights, i, j) ==
  LET cell == DistanceCell(i, j)
  IN  weights[cell[1]][cell[2]]

\* the length of the path, without the edge back to the first entry
InitialCostOpenPath(weights, tour, dimension) ==
  SumSeq([k \in 1..(dimension - 1) |->
            Distance(weights, tour[k - 1], tour[k])])

\* TSP2Opt._calculate_initial_cost
InitialCost(weights, tour, dimension) ==
  SumSeq([k \in 1..dimension |->
            Distance(weights, tour[k - 1], tour[k % dimension])])

\* the two ends of the segment exchanged, the inside left as it is
SwapWhileOnce(tour, i, j) ==
  IF i < j THEN [tour EXCEPT ![i] = tour[j], ![j] = tour[i]] ELSE tour

\* the while loop of swap_edges
RECURSIVE SwapWhile(_, _, _)
SwapWhile(tour, i, j) ==
  IF i < j
  THEN SwapWhile([tour EXCEPT ![i] = tour[j], ![j] = tour[i]], i + 1, j - 1)
  ELSE tour

\* the reversal started at position i, without the increment
SwapEdgesFromI(tour, i, j) == SwapWhile(tour, i, j)

\* the segment's first entry overwritten by its last, not exchanged
SwapEdgesOverwrite(tour, i, j) == [tour EXCEPT ![i + 1] = tour[j]]

\* TSP2Opt.swap_edges
SwapEdges(tour, i, j) == SwapWhile(tour, i + 1, j)

\* cost_delta of the pair (i, j)
CostDelta(t, i, j) ==
  LET n == t.dimension
  IN  0 - Distance(t.weights, t.tour[i], t.tour[i + 1])
        - Distance(t.weights, t.tour[j], t.tour[(j + 1) % n])
        + Distance(t.weights, t.tour[i], t.tour[j])
        + Distance(t.weights, t.tour[i + 1], t.tour[(j + 1) % n])

\* TSP2Opt.__init__
NewTsp(weights) ==
  LET dimension == Cardinality(DOMAIN weights)
      tour == [k \in 0..(dimension - 1) |-> k]
  IN  [dimension |-> dimension, weights |-> weights, tour |-> tour,
       cost |-> InitialCost(weights, tour, dimension)]

\* observation_cost: the quantity costs of all tests of the list
ObservationCost(tests_list, observations_cost) ==
  SumSeq([k \in 1..Len(tests_list) |->
            SumOver(DOMAIN tests_list[k].quantities,
                    [q \in DOMAIN tests_list[k].quantities |->
                       Get(observations_cost, q)])])

\* the search for the test with id 0 along the tour: its position, a
\* KeyError when a test without id is inspected first, or the ValueError
\* raised when the loop ends with init_idx still None
RECURSIVE FindInit(_, _, _)
FindInit(tests_list, tour, idx) ==
  IF idx >= Len(tests_list) THEN [raised |-> "ValueError", init_idx |-> 0]
  ELSE LET t == tests_list[tour[idx] + 1]
       IN  IF "id" \notin DOMAIN t
           THEN [raised |-> "KeyError", init_idx |-> 0]
           ELSE IF t.id = 0 THEN [raised |-> "no", init_idx |-> idx]
           ELSE FindInit(tests_list, tour, idx + 1)

\* the tour rotated one place too far
RotateFromNext(tour, dimension, init_idx) ==
  [k \in 1..dimension |-> tour[(init_idx + k) % dimension]]

\* order: the tour rotated so that position init_idx comes first
Rotate(tour, dimension, init_idx) ==
  [k \in 1..dimension |-> tour[(init_idx + k - 1) % dimension]]

\* the emitted test with nothing to retract
OptTestNoRetract(current, next, test_count) ==
  LET current_scenarios == Range(current.scenarios)
      next_scenarios == Range(next.scenarios)
  IN  [id |-> test_count,
       scenarios |-> Sorted(next_scenarios),
       retract |-> <<>>,
       apply |-> Sorted(next_scenarios \ current_scenarios)] @@ next

\* the two differences written under each other's key
OptTestSwapped(current, next, test_count) ==
  LET current_scenarios == Range(current.scenarios)
      next_scenarios == Range(next.scenarios)
  IN  [id |-> test_count,
       scenarios |-> Sorted(next_scenarios),
       retract |-> Sorted(next_scenarios \ current_scenarios),
       apply |-> Sorted(current_scenarios \ next_scenarios)] @@ next

\* one round of the emission loop: the test made of pair[0] and pair[1]
OptTest(current, next, test_count) ==
  LET current_scenarios == Range(current.scenarios)
      next_scenarios == Range(next.scenarios)
  IN  [id |-> test_count,
       scenarios |-> Sorted(next_scenarios),
       retract |-> Sorted(current_scenarios \ next_scenarios),
       apply |-> Sorted(next_scenarios \ current_scenarios)] @@ next

\* every emitted test copied from pair[0] instead of pair[1]
EmitPairHead(tests_tour) ==
  [k \in 1..(Len(tests_tour) - 1) |->
     OptTest(tests_tour[k + 1], tests_tour[k], k)]

\* the first node of the tour emitted as a test as well
EmitFromFirstNode(tests_tour) ==
  [k \in 1..Len(tests_tour) |->
     IF k = 1 THEN tests_tour[1]
     ELSE OptTest(tests_tour[k - 1], tests_tour[k], k - 1)]

\* the list opt_tests built from tests_tour
Emit(tests_tour) ==
  [k \in 1..(Len(tests_tour) - 1) |->
     OptTest(tests_tour[k], tests_tour[k + 1], k)]

(* ----------------------- calculate_costs and render -------------------- *)
\* compute_cost: every listed id counts, unknown ids count 0
ComputeCost(cost_lookup, scenario_ids) ==
  SumSeq([k \in 1..Len(scenario_ids) |-> Get(cost_lookup, scenario_ids[k])])

\* test.get(key, []): the list under key, or the empty list
Field(test, key) == IF key \in DOMAIN test THEN test[key] ELSE <<>>

\* the totals without the retraction of the last test's scenarios
CalculateCostsNoTeardown(tests_list, costs_data) ==
  LET cost_lookup == IF "scenarios" \in DOMAIN costs_data
                     THEN costs_data.scenarios ELSE <<>>
      total_apply_cost ==
        SumSeq([k \in 1..Len(tests_list) |->
                  ComputeCost(cost_lookup, Field(tests_list[k], "apply"))])
      total_retract_cost ==
        SumSeq([k \in 1..Len(tests_list) |->
                  ComputeCost(cost_lookup, Field(tests_list[k], "retract"))])
  IN  [raised |-> tests_list = <<>>,
       total_apply_cost |-> total_apply_cost,
       total_retract_cost |-> total_retract_cost,
       total_combined_cost |-> total_apply_cost + total_retract_cost]

\* calculate_costs(tests, costs_data); tests[-1] raises IndexError on an
\* empty list
CalculateCosts(tests_list, costs_data) ==
  LET cost_lookup == IF "scenarios" \in DOMAIN costs_data
                     THEN costs_data.scenarios ELSE <<>>
      total_apply_cost ==
        SumSeq([k \in 1..Len(tests_list) |->
                  ComputeCost(cost_lookup, Field(tests_list[k], "apply"))])
      retract_sum ==
        SumSeq([k \in 1..Len(tests_list) |->
                  ComputeCost(cost_lookup, Field(tests_list[k], "retract"))])
  IN  IF tests_list = <<>>
      THEN [raised |-> TRUE]
      ELSE LET final_scenarios ==
                 Field(tests_list[Len(tests_list)], "scenarios")
               total_retract_cost ==
                 retract_sum + ComputeCost(cost_lookup, final_scenarios)
           IN  [raised |-> FALSE,
                total_apply_cost |-> total_apply_cost,
                total_retract_cost |-> total_retract_cost,
                total_combined_cost |-> total_apply_cost + total_retract_cost]

\* render's unoptimized sequence: every test against the one before it;
\* list(set(...)) fixes no order of the ids, written here ascending
Unoptimized(pruned_tests) ==
  [k \in 1..Len(pruned_tests) |->
     LET ct == IF k = 1 THEN {} ELSE Range(pruned_tests[k - 1].scenarios)
         tt == pruned_tests[k]
     IN  [id |-> k,
          apply |-> Sorted(Range(tt.scenarios) \ ct),
          retract |-> Sorted(ct \ Range(tt.scenarios))] @@ tt]

\* render's loop over opt_tests: each takes the id of the unoptimized test
\* with its uuid
MapIds(opt_tests, unopt_tests) ==
  [k \in 1..Len(opt_tests) |->
     LET target == CHOOSE m \in 1..Len(unopt_tests) :
                     /\ unopt_tests[m].uuid = opt_tests[k].uuid
                     /\ \A l \in 1..(m - 1) :
                          unopt_tests[l].uuid # opt_tests[k].uuid
     IN  [opt_tests[k] EXCEPT !.id = unopt_tests[target].id]]

(* ------------------------------ actions -------------------------------- *)
Init ==
  /\ pc = "input"
  /\ feed = <<>>
  /\ tests = <<>>
  /\ uuidCtr = 0
  /\ suff = <<>>
  /\ pruned = <<>>
  /\ opc = "idle"
  /\ optIn = <<>>
  /\ optTests = <<>>
  /\ tsp = <<>>
  /\ loop = <<>>
  /\ order = <<>>
  /\ result = NoResult
  /\ report = NoResult

\* the requirements file gains a binding before the page is rendered
ReadRequirement(max) ==
  /\ pc = "input"
  /\ Len(feed) < max
  /\ \E rh \in Bindings : feed' = Append(feed, rh)
  /\ UNCHANGED <<pc, tests, uuidCtr, suff, pruned>>
  /\ UNCHANGED optVars

\* render calls generate_tests on the feed and stores the result
Generate ==
  /\ pc = "input"
  /\ LET res == GenerateTests(feed, uuidCtr)
     IN  /\ pc' = IF res.raised THEN "raised" ELSE "generated"
         /\ tests' = res.tests
         /\ uuidCtr' = uuidCtr + Len(res.tests)
  /\ UNCHANGED <<feed, suff, pruned>>
  /\ UNCHANGED optVars

\* the page is rendered again: generate_tests runs on the same feed
Regenerate ==
  /\ pc = "generated"
  /\ LET res == GenerateTests(feed, uuidCtr)
     IN  /\ tests' = res.tests
         /\ uuidCtr' = uuidCtr + Len(res.tests)
  /\ pc' = "regenerated"
  /\ UNCHANGED <<feed, suff, pruned>>
  /\ UNCHANGED optVars

\* render loads tests.json and calls prune_tests with a sufficiency feed
Prune ==
  /\ pc = "generated"
  /\ \E sufficiency_data \in SeqsUpTo(SuffBindings, MaxSuff) :
        /\ suff' = sufficiency_data
        /\ pruned' = PruneTests(tests, sufficiency_data)
  /\ pc' = "pruned"
  /\ UNCHANGED <<feed, tests, uuidCtr>>
  /\ UNCHANGED optVars

\* run entering optimize whatever args.optimize says
LoadAlwaysOptimize(entry, args, cost_map, tests_data, tests_list) ==
  LET weights == MakeWeights(tests_list, cost_map.scenarios)
  IN  /\ optIn' = [entry |-> entry, args |-> args, cost_map |-> cost_map,
                   tests_data |-> tests_data]
      /\ optTests' = tests_list
      /\ tsp' = NewTsp(weights)
      /\ loop' = [found_improvement |-> TRUE, i |-> 0, j |-> 0]
      /\ opc' = "while"
      /\ UNCHANGED <<order, result, report>>

\* OptimizeTestOrder.run up to the construction of the TSP2Opt object
Load(entry, args, cost_map, tests_data, tests_list) ==
  LET weights == MakeWeights(tests_list, cost_map.scenarios)
  IN  /\ optIn' = [entry |-> entry, args |-> args, cost_map |-> cost_map,
                   tests_data |-> tests_data]
      /\ optTests' = tests_list
      /\ tsp' = NewTsp(weights)
      /\ loop' = [found_improvement |-> TRUE, i |-> 0, j |-> 0]
      /\ opc' = IF args.optimize THEN "while" ELSE "optimized"
      /\ UNCHANGED <<order, result, report>>

\* a parse error inside run: the entry point catches it and returns 1
ParseError(entry, args, cost_map, tests_data) ==
  /\ optIn' = [entry |-> entry, args |-> args, cost_map |-> cost_map,
               tests_data |-> tests_data]
  /\ result' = IntOne
  /\ opc' = "returned"
  /\ UNCHANGED <<optTests, tsp, loop, order, report>>

\* render calls optimize_test_order(pruned_tests_json, costs_json)
CallOptimizeTestOrder ==
  /\ opc = "idle"
  /\ \E cost_map \in CostMaps \cup {MalformedCostMap},
        tests_data \in TestsFiles(MaxTests) \cup {MalformedTests} :
        LET args == [resort |-> FALSE, concorde |-> FALSE, optimize |-> TRUE]
        IN  IF cost_map = MalformedCostMap \/ tests_data = MalformedTests
            THEN ParseError("optimize_test_order", args, cost_map, tests_data)
            ELSE Load("optimize_test_order", args, cost_map, tests_data,
                      <<EmptyConfiguration>> \o tests_data)
  /\ UNCHANGED genVars

\* OptimizeTestOrder.run(args, input_data) on a tests file, with args out
\* of a set; args.concorde only makes run log a warning
RunWith(tests_data, argss) ==
  \E cost_map \in CostMaps, args \in argss :
     \E shuffled \in IF args.resort THEN Shuffles(tests_data)
                     ELSE {tests_data} :
        Load("run", args, cost_map, tests_data,
             <<EmptyConfiguration>> \o shuffled)

\* OptimizeTestOrder.run(args, input_data) called with args of the caller
CallRun ==
  /\ opc = "idle"
  /\ \/ \E tests_data \in TestsFiles(MaxTests) :
           RunWith(tests_data, [resort : {FALSE}, concorde : {FALSE},
                                optimize : BOOLEAN])
     \/ \E tests_data \in TestsFiles(MaxArgTests) :
           RunWith(tests_data, [resort : BOOLEAN, concorde : BOOLEAN,
                                optimize : BOOLEAN])
  /\ UNCHANGED genVars

\* render prunes the generated tests; the sufficiency data it passes is
\* the requirements file read a second time
RenderPrune ==
  /\ pc = "generated"
  /\ suff' = feed
  /\ pruned' = PruneTests(tests, feed)
  /\ pc' = "pruned"
  /\ UNCHANGED <<feed, tests, uuidCtr>>
  /\ UNCHANGED optVars

\* render writes costs.json and calls optimize_test_order on the pruned
\* tests it has written
OptimizePruned ==
  /\ pc = "pruned"
  /\ opc = "idle"
  /\ \E cost_map \in CostMaps :
        Load("optimize_test_order",
             [resort |-> FALSE, concorde |-> FALSE, optimize |-> TRUE],
             cost_map, pruned, <<EmptyConfiguration>> \o pruned)
  /\ UNCHANGED genVars

\* OptimizeTestOrder.run on the pruned tests with optimize switched off
RunPruned ==
  /\ pc = "pruned"
  /\ opc = "idle"
  /\ RunWith(pruned,
             {[resort |-> FALSE, concorde |-> FALSE, optimize |-> FALSE]})
  /\ UNCHANGED genVars

\* TSP2Opt.optimize: the test of the while loop and the entry of the for
\* loops, whose first pair is (0, 2)
WhileTest ==
  /\ opc = "while"
  /\ IF loop.found_improvement
     THEN IF 2 < tsp.dimension
          THEN /\ loop' = [found_improvement |-> FALSE, i |-> 0, j |-> 2]
               /\ opc' = "scan"
          ELSE /\ loop' = [loop EXCEPT !.found_improvement = FALSE]
               /\ opc' = "while"
     ELSE /\ opc' = "optimized"
          /\ UNCHANGED loop
  /\ UNCHANGED <<optIn, optTests, tsp, order, result, report>>
  /\ UNCHANGED genVars

\* the j loop ending one place early, the pairs (i, n-1) left out
ExamineSkippingLast ==
  /\ opc = "scan"
  /\ LET i == loop.i
         j == loop.j
         cost_delta == CostDelta(tsp, i, j)
         found == loop.found_improvement \/ cost_delta < 0
     IN  /\ tsp' = IF cost_delta < 0
                   THEN [tsp EXCEPT !.tour = SwapEdges(tsp.tour, i, j),
                                    !.cost = tsp.cost + cost_delta]
                   ELSE tsp
         /\ IF j + 2 < tsp.dimension
            THEN /\ loop' = [found_improvement |-> found, i |-> i, j |-> j + 1]
                 /\ opc' = "scan"
            ELSE IF i + 4 < tsp.dimension
            THEN /\ loop' = [found_improvement |-> found,
                             i |-> i + 1, j |-> i + 3]
                 /\ opc' = "scan"
            ELSE /\ loop' = [found_improvement |-> found, i |-> i, j |-> j]
                 /\ opc' = "while"
  /\ UNCHANGED <<optIn, optTests, order, result, report>>
  /\ UNCHANGED genVars

\* the scan started again at the pair (0, 2) after an accepted swap
ExamineRestarting ==
  /\ opc = "scan"
  /\ LET i == loop.i
         j == loop.j
         cost_delta == CostDelta(tsp, i, j)
         found == loop.found_improvement \/ cost_delta < 0
     IN  /\ tsp' = IF cost_delta < 0
                   THEN [tsp EXCEPT !.tour = SwapEdges(tsp.tour, i, j),
                                    !.cost = tsp.cost + cost_delta]
                   ELSE tsp
         /\ IF cost_delta < 0
            THEN /\ loop' = [found_improvement |-> found, i |-> 0, j |-> 2]
                 /\ opc' = "scan"
            ELSE IF j + 1 < tsp.dimension
            THEN /\ loop' = [found_improvement |-> found, i |-> i, j |-> j + 1]
                 /\ opc' = "scan"
            ELSE IF i + 3 < tsp.dimension
            THEN /\ loop' = [found_improvement |-> found,
                             i |-> i + 1, j |-> i + 3]
                 /\ opc' = "scan"
            ELSE /\ loop' = [found_improvement |-> found, i |-> i, j |-> j]
                 /\ opc' = "while"
  /\ UNCHANGED <<optIn, optTests, order, result, report>>
  /\ UNCHANGED genVars

\* the body of the for loops taking the swaps that lengthen the tour
ExamineAcceptingWorse ==
  /\ opc = "scan"
  /\ LET i == loop.i
         j == loop.j
         cost_delta == CostDelta(tsp, i, j)
         found == loop.found_improvement \/ cost_delta > 0
     IN  /\ tsp' = IF cost_delta > 0
                   THEN [tsp EXCEPT !.tour = SwapEdges(tsp.tour, i, j),
                                    !.cost = tsp.cost + cost_delta]
                   ELSE tsp
         /\ IF j + 1 < tsp.dimension
            THEN /\ loop' = [found_improvement |-> found, i |-> i, j |-> j + 1]
                 /\ opc' = "scan"
            ELSE IF i + 3 < tsp.dimension
            THEN /\ loop' = [found_improvement |-> found,
                             i |-> i + 1, j |-> i + 3]
                 /\ opc' = "scan"
            ELSE /\ loop' = [found_improvement |-> found, i |-> i, j |-> j]
                 /\ opc' = "while"
  /\ UNCHANGED <<optIn, optTests, order, result, report>>
  /\ UNCHANGED genVars

\* the body of the for loops taking a swap also when cost_delta is 0
ExamineAcceptingZero ==
  /\ opc = "scan"
  /\ LET i == loop.i
         j == loop.j
         cost_delta == CostDelta(tsp, i, j)
         found == loop.found_improvement \/ cost_delta <= 0
     IN  /\ tsp' = IF cost_delta <= 0
                   THEN [tsp EXCEPT !.tour = SwapEdges(tsp.tour, i, j),
                                    !.cost = tsp.cost + cost_delta]
                   ELSE tsp
         /\ IF j + 1 < tsp.dimension
            THEN /\ loop' = [found_improvement |-> found, i |-> i, j |-> j + 1]
                 /\ opc' = "scan"
            ELSE IF i + 3 < tsp.dimension
            THEN /\ loop' = [found_improvement |-> found,
                             i |-> i + 1, j |-> i + 3]
                 /\ opc' = "scan"
            ELSE /\ loop' = [found_improvement |-> found, i |-> i, j |-> j]
                 /\ opc' = "while"
  /\ UNCHANGED <<optIn, optTests, order, result, report>>
  /\ UNCHANGED genVars

\* TSP2Opt.optimize: the body of the for loops at the pair (i, j), and the
\* step to the next pair
Examine ==
  /\ opc = "scan"
  /\ LET i == loop.i
         j == loop.j
         cost_delta == CostDelta(tsp, i, j)
         found == loop.found_improvement \/ cost_delta < 0
     IN  /\ tsp' = IF cost_delta < 0
                   THEN [tsp EXCEPT !.tour = SwapEdges(tsp.tour, i, j),
                                    !.cost = tsp.cost + cost_delta]
                   ELSE tsp
         /\ IF j + 1 < tsp.dimension
            THEN /\ loop' = [found_improvement |-> found, i |-> i, j |-> j + 1]
                 /\ opc' = "scan"
            ELSE IF i + 3 < tsp.dimension
            THEN /\ loop' = [found_improvement |-> found,
                             i |-> i + 1, j |-> i + 3]
                 /\ opc' = "scan"
            ELSE /\ loop' = [found_improvement |-> found, i |-> i, j |-> j]
                 /\ opc' = "while"
  /\ UNCHANGED <<optIn, optTests, order, result, report>>
  /\ UNCHANGED genVars

\* run: the search for the test with id 0 and the rotation of the tour
RotateTour ==
  /\ opc = "optimized"
  /\ LET found == FindInit(optTests, tsp.tour, 0)
     IN  IF found.raised # "no"
         THEN /\ result' = IF optIn.entry = "run" THEN Raised(found.raised)
                            ELSE IntOne
              /\ opc' = IF optIn.entry = "run" THEN "raised" ELSE "returned"
              /\ UNCHANGED order
         ELSE /\ order' = Rotate(tsp.tour, tsp.dimension, found.init_idx)
              /\ opc' = "rotated"
              /\ UNCHANGED result
  /\ UNCHANGED <<optIn, optTests, tsp, loop, report>>
  /\ UNCHANGED genVars

\* run: tests_tour, the emission loop and the return of the result
EmitTests ==
  /\ opc = "rotated"
  /\ LET tests_tour == [k \in 1..Len(order) |-> optTests[order[k] + 1]]
     IN  result' = [type |-> "dict",
                    reconfiguration_cost |-> tsp.cost,
                    observation_cost |->
                      ObservationCost(optTests, optIn.cost_map.observations),
                    tests |-> Emit(tests_tour)]
  /\ opc' = "returned"
  /\ UNCHANGED <<optIn, optTests, tsp, loop, order, report>>
  /\ UNCHANGED genVars

\* render after the call: the unoptimized sequence, the ids written into
\* the optimized tests, and the two cost summaries; opt_tests["tests"]
\* raises when opt_tests is the integer 1
Report ==
  /\ opc = "returned"
  /\ optIn.entry = "optimize_test_order"
  /\ IF result = IntOne
     THEN /\ report' = Raised("TypeError")
          /\ UNCHANGED result
     ELSE LET unopt == Unoptimized(optIn.tests_data)
              opt == MapIds(result.tests, unopt)
              costs == CalculateCosts(unopt, optIn.cost_map)
              opt_costs == CalculateCosts(opt, optIn.cost_map)
          IN  /\ result' = [result EXCEPT !.tests = opt]
              /\ report' =
                   IF costs.raised \/ opt_costs.raised
                   THEN Raised("IndexError")
                   ELSE [type |-> "metrics", unopt_tests |-> unopt,
                         costs |-> costs, opt_costs |-> opt_costs]
  /\ opc' = "reported"
  /\ UNCHANGED <<optIn, optTests, tsp, loop, order>>
  /\ UNCHANGED genVars

NextGen == ReadRequirement(MaxFeed) \/ Generate \/ Regenerate

NextOpt ==
  CallOptimizeTestOrder \/ CallRun \/ WhileTest \/ Examine \/ RotateTour
    \/ EmitTests \/ Report

NextPrune == ReadRequirement(MaxPruneFeed) \/ Generate \/ Prune

\* generation of the tests, repeated on every rendering
Spec == Init /\ [][NextGen]_vars

\* generation followed by pruning
SpecPrune == Init /\ [][NextPrune]_vars

\* the optimizer and the cost report on a file of pruned tests
SpecOpt == Init /\ [][NextOpt]_vars

\* the optimizer with its loops running on: optimize is sequential code,
\* so a loop test or a loop body that can be executed is executed
SpecOptFair ==
  Init /\ [][NextOpt]_vars /\ WF_vars(WhileTest) /\ WF_vars(Examine)

NextRender ==
  ReadRequirement(MaxRenderFeed) \/ Generate \/ RenderPrune \/ OptimizePruned
    \/ RunPruned \/ WhileTest \/ Examine \/ RotateTour \/ EmitTests \/ Report

\* a whole rendering: generation, pruning, optimization and report
SpecRender == Init /\ [][NextRender]_vars

(* ------------------------- generate_tests: claims ---------------------- *)
\* a binding the loop reads to the end: every field present and not null
WellFormed(rh) ==
  /\ rh.reqName \notin {NoneVal, Absent}
  /\ rh.quaID \notin {NoneVal, Absent}
  /\ rh.scenarios \notin {NoneVal, Absent}

ReadBindings == SelectSeq(feed, WellFormed)

\* the scenarios a binding declares
Declared(rh) == Range(Split(rh.scenarios))

\* for each binding that is read: requirement, quantity, declared scenarios
Declarations ==
  [k \in 1..Len(ReadBindings) |->
     [req |-> ReadBindings[k].reqName,
      qty |-> ReadBindings[k].quaID,
      set |-> Declared(ReadBindings[k])]]

\* generate_tests has returned a list (on the first or a later rendering)
Generated == pc \in {"generated", "regenerated"}

Config(t) == Range(t.scenarios)

\* the requirements listed anywhere in the quantity map of a test
Listed(t) ==
  UNION {Range(t.quantities[q].requirements) : q \in DOMAIN t.quantities}

StrictlySorted(list) ==
  \A a, b \in 1..Len(list) : a < b => LexLess(list[a], list[b])

\* C1: generate_tests returns exactly one Test per distinct scenario set of
\* the feed, in the order the sets are first seen; no two Tests are
\* set-equal and every scenarios list is sorted without duplicates.
C1_OneTestPerScenarioSet ==
  Generated =>
    LET decl == Declarations
        firsts == {k \in DOMAIN decl :
                     \A j \in 1..(k - 1) : decl[j].set # decl[k].set}
    IN  /\ Len(tests) = Cardinality(firsts)
        /\ \A i \in 1..Len(tests) :
              \E k \in firsts :
                 /\ Cardinality({j \in firsts : j < k}) = i - 1
                 /\ Config(tests[i]) = decl[k].set
        /\ \A i, j \in 1..Len(tests) :
              i # j => Config(tests[i]) # Config(tests[j])
        /\ \A i \in 1..Len(tests) : StrictlySorted(tests[i].scenarios)

\* two tests were generated from three bindings, two of which list the
\* same scenarios in a different order
C1_Witness ==
  /\ pc = "generated"
  /\ Len(feed) = 3
  /\ Len(tests) = 2
  /\ \E j, k \in 1..Len(feed) :
        /\ j < k
        /\ WellFormed(feed[j]) /\ WellFormed(feed[k])
        /\ feed[j].scenarios # feed[k].scenarios
        /\ Declared(feed[j]) = Declared(feed[k])

\* every requirement id of the feed is bound to one quantity
SingleQuantity ==
  \A j, k \in 1..Len(feed) :
     (WellFormed(feed[j]) /\ WellFormed(feed[k])
        /\ feed[j].reqName = feed[k].reqName)
       => feed[j].quaID = feed[k].quaID

\* C2: for every generated Test and every quantity, the requirement list of
\* the quantity is exactly the set of requirements that reference it and
\* are declared for the Test's scenario set or any strict subset of it; the
\* quantity is a key of the map exactly when that set is not empty (feeds
\* in which a requirement id carries one quantity).
C2_QuantityMapIsCoveredSet ==
  (Generated /\ SingleQuantity) =>
    LET decl == Declarations
    IN  \A i \in 1..Len(tests) : \A q \in Quantities :
           LET covered ==
                 {decl[k].req :
                    k \in {j \in DOMAIN decl :
                             /\ decl[j].qty = q
                             /\ decl[j].set \subseteq Config(tests[i])}}
           IN  /\ (q \in DOMAIN tests[i].quantities) <=> (covered # {})
               /\ q \in DOMAIN tests[i].quantities =>
                    /\ Range(tests[i].quantities[q].requirements) = covered
                    /\ Len(tests[i].quantities[q].requirements)
                         = Cardinality(covered)

\* a chain of three configurations: the largest lists a requirement that is
\* declared only for the smallest, which is not a maximal subset
C2_Witness ==
  /\ pc = "generated"
  /\ SingleQuantity
  /\ \E i, j, k \in 1..Len(tests) :
        /\ Config(tests[k]) \subseteq Config(tests[j])
        /\ Config(tests[j]) \subseteq Config(tests[i])
        /\ Cardinality(Config(tests[i])) = 3
        /\ Cardinality(Config(tests[j])) = 2
        /\ Cardinality(Config(tests[k])) = 1
        /\ \E r \in Range(tests[k].requirements_direct) :
              /\ r \notin Range(tests[j].requirements_direct)
              /\ r \notin Range(tests[i].requirements_direct)
              /\ r \in Listed(tests[i])

\* C3: every direct requirement of a generated Test appears in its quantity
\* map, and every requirement in the quantity map is declared for a subset
\* of (or exactly) the Test's scenario set.
C3_Subsumption ==
  Generated =>
    LET decl == Declarations
    IN  \A i \in 1..Len(tests) :
           LET listed == Listed(tests[i])
           IN  /\ Range(tests[i].requirements_direct) \subseteq listed
               /\ \A r \in listed :
                     \E k \in DOMAIN decl :
                        /\ decl[k].req = r
                        /\ decl[k].set \subseteq Config(tests[i])

\* a Test with a direct requirement, next to a Test for a strict superset
\* one of whose requirements it does not list
C3_Witness ==
  /\ pc = "generated"
  /\ \E i, j \in 1..Len(tests) :
        /\ Config(tests[i]) \subseteq Config(tests[j])
        /\ Config(tests[i]) # Config(tests[j])
        /\ tests[i].requirements_direct # <<>>
        /\ \E r \in Range(tests[j].requirements_direct) :
              r \notin Listed(tests[i])

\* C4: quantities_direct is exactly the set of quantities of the map that
\* list a requirement declared for exactly the Test's scenario set.
C4_QuantitiesDirect ==
  Generated =>
    LET decl == Declarations
    IN  \A i \in 1..Len(tests) :
           /\ Range(tests[i].quantities_direct) =
                {q \in DOMAIN tests[i].quantities :
                   \E r \in Range(tests[i].quantities[q].requirements) :
                      \E k \in DOMAIN decl :
                         /\ decl[k].req = r
                         /\ decl[k].set = Config(tests[i])}
           /\ StrictlySorted(tests[i].quantities_direct)

\* a Test with a direct quantity and a quantity reached only by inheritance
C4_Witness ==
  /\ pc = "generated"
  /\ \E i \in 1..Len(tests) :
        /\ tests[i].quantities_direct # <<>>
        /\ \E q \in DOMAIN tests[i].quantities :
              q \notin Range(tests[i].quantities_direct)

\* C5: when generate_tests runs again on the same feed every configuration
\* keeps its scenarios and its config_digest while the uuids are new, and
\* bindings that list the same scenarios in any order share one
\* configuration (hence one digest).
C5_DigestOfScenarioSet ==
  [][(pc = "generated" /\ pc' = "regenerated") =>
       LET decl == Declarations
       IN  /\ Len(tests') = Len(tests)
           /\ \A i \in 1..Len(tests) :
                 /\ tests'[i].scenarios = tests[i].scenarios
                 /\ tests'[i].config_digest = tests[i].config_digest
                 /\ \A j \in 1..Len(tests) : tests'[i].uuid # tests[j].uuid
           /\ \A j, k \in DOMAIN decl :
                 decl[j].set = decl[k].set =>
                   \E i \in 1..Len(tests') :
                      /\ Config(tests'[i]) = decl[j].set
                      /\ \A h \in 1..Len(tests') :
                            Config(tests'[h]) = decl[k].set
                              => tests'[h].config_digest
                                   = tests'[i].config_digest]_vars

\* the tests were generated twice from a feed that lists the scenarios 1 and
\* 2 in both orders
C5_Witness ==
  /\ pc = "regenerated"
  /\ tests # <<>>
  /\ \E j, k \in 1..Len(feed) :
        /\ feed[j].scenarios = <<"1", ",", "2">>
        /\ feed[k].scenarios = <<"2", ",", "1">>
        /\ WellFormed(feed[j]) /\ WellFormed(feed[k])

\* the fields of a Test that do not depend on the uuid
Content(t) == [t EXCEPT !.uuid = 0]

\* C6: a binding with a missing or malformed quantity or scenarios field is
\* skipped: generate_tests raises nothing and returns the Tests implied by
\* the other bindings.
C6_MalformedSkipped ==
  /\ pc # "raised"
  /\ Generated =>
       LET others == GenerateTests(ReadBindings, 0).tests
       IN  /\ Len(tests) = Len(others)
           /\ \A i \in 1..Len(tests) : Content(tests[i]) = Content(others[i])

(* --------------------------- prune_tests: claims ----------------------- *)
HasRecord(r) == \E k \in 1..Len(suff) : suff[k].reqName = r

Certified(r, config) ==
  \E k \in 1..Len(suff) :
     suff[k].reqName = r /\ Range(Split(suff[k].scenarios)) = config

\* requirement r is still listed for quantity q of the test with this uuid
Kept(uuid, q, r) ==
  \E j \in 1..Len(pruned) :
     /\ pruned[j].uuid = uuid
     /\ q \in DOMAIN pruned[j].quantities
     /\ r \in Range(pruned[j].quantities[q].requirements)

\* C7: after prune_tests every remaining Test has at least one quantity and
\* every remaining quantity has at least one requirement.
C7_NoEmptyLeft ==
  pc = "pruned" =>
    \A j \in 1..Len(pruned) :
       /\ DOMAIN pruned[j].quantities # {}
       /\ \A q \in DOMAIN pruned[j].quantities :
             pruned[j].quantities[q].requirements # <<>>

\* two consecutive Tests, the first with two quantities, were all removed
C7_Witness ==
  /\ pc = "pruned"
  /\ Len(tests) = 2
  /\ Cardinality(DOMAIN tests[1].quantities) = 2
  /\ pruned = <<>>

\* C8: after prune_tests every listed requirement either has no sufficiency
\* record or has a record whose scenario set equals the Test's.
C8_PruningInvariant ==
  pc = "pruned" =>
    \A j \in 1..Len(pruned) : \A q \in DOMAIN pruned[j].quantities :
       \A r \in Range(pruned[j].quantities[q].requirements) :
          ~HasRecord(r) \/ Certified(r, Config(pruned[j]))

\* a requirement with a record was kept in a two-scenario Test and dropped
\* from another Test
C8_Witness ==
  /\ pc = "pruned"
  /\ \E j \in 1..Len(pruned) : \E r \in Listed(pruned[j]) :
        /\ HasRecord(r)
        /\ Cardinality(Config(pruned[j])) = 2
        /\ \E i \in 1..Len(tests) :
              /\ r \in Listed(tests[i])
              /\ \A q \in DOMAIN tests[i].quantities :
                    ~Kept(tests[i].uuid, q, r)

\* C9: a requirement without a sufficiency record is never removed, and a
\* feed that names only requirements unknown to the tests changes nothing.
C9_AbsentNeverPruned ==
  pc = "pruned" =>
    /\ \A i \in 1..Len(tests) : \A q \in DOMAIN tests[i].quantities :
          \A r \in Range(tests[i].quantities[q].requirements) :
             ~HasRecord(r) => Kept(tests[i].uuid, q, r)
    /\ (\A i \in 1..Len(tests) : \A r \in Listed(tests[i]) : ~HasRecord(r))
         => pruned = tests

\* a non-empty feed naming only the unknown requirement r9 was applied to
\* two Tests
C9_Witness ==
  /\ pc = "pruned"
  /\ Len(tests) = 2
  /\ suff # <<>>
  /\ \A k \in 1..Len(suff) : suff[k].reqName = <<"r", "9">>

\* C10: a requirement that has sufficiency records is dropped from a Test's
\* quantity exactly when no record of the feed certifies the Test's
\* scenario set for it; with several records for one requirement, any one
\* of them keeps it.
C10_DroppedIffNotCertified ==
  pc = "pruned" =>
    \A i \in 1..Len(tests) : \A q \in DOMAIN tests[i].quantities :
       \A r \in Range(tests[i].quantities[q].requirements) :
          HasRecord(r) =>
            (Kept(tests[i].uuid, q, r) <=> Certified(r, Config(tests[i])))
(* ------------------------- the optimizer: claims ----------------------- *)
\* the positions at which the TSP2Opt object exists and run has not returned
TourBuilt == opc \in {"while", "scan", "optimized", "rotated"}

\* list holds every index 0..n-1 exactly once; positions start at first
IsPermutation(list, first, n) ==
  /\ DOMAIN list = first..(first + n - 1)
  /\ \A v \in 0..(n - 1) :
        Cardinality({k \in DOMAIN list : list[k] = v}) = 1

\* an accepted swap: the body of the for loops finds cost_delta < 0
AcceptedSwap == opc = "scan" /\ CostDelta(tsp, loop.i, loop.j) < 0

\* the tour list(range(dimension)) a TSP2Opt object starts with
InitialTour == [k \in 0..(tsp.dimension - 1) |-> k]

\* the length of the cycle a tour describes, summed from scratch
TourLength(t) == InitialCost(t.weights, t.tour, t.dimension)

\* C11: in every state of TSP2Opt.optimize, and after the rotation in run,
\* the tour holds each index 0..n-1 exactly once, n being the number of
\* input tests plus one for the empty configuration at index 0
C11_TourIsPermutation ==
  LET n == Len(optIn.tests_data) + 1
  IN  /\ TourBuilt => IsPermutation(tsp.tour, 0, n)
      /\ opc = "rotated" => /\ IsPermutation(order, 1, n)
                            /\ order[1] = 0

\* a run in which a swap was accepted and the tour was then rotated
C11_Witness ==
  /\ opc = "rotated"
  /\ tsp.tour # InitialTour
  /\ Len(order) = 4

\* C12: the running cost is the length of the current tour recomputed from
\* scratch; an accepted swap lowers it strictly, by exactly the computed
\* delta; and the reconfiguration_cost returned is the recomputed length
\* of the final tour
C12_CostIsTourLength ==
  /\ [](TourBuilt => tsp.cost = TourLength(tsp))
  /\ [][AcceptedSwap =>
          /\ tsp'.cost = tsp.cost + CostDelta(tsp, loop.i, loop.j)
          /\ tsp'.cost < tsp.cost
          /\ tsp'.cost = TourLength(tsp')]_vars
  /\ [](opc = "returned" /\ result.type = "dict" =>
          result.reconfiguration_cost = TourLength(tsp))

\* a result returned after a swap was accepted, cheaper than the file order
C12_Witness ==
  /\ opc = "returned"
  /\ result.type = "dict"
  /\ tsp.tour # InitialTour
  /\ result.reconfiguration_cost
       < InitialCost(tsp.weights, InitialTour, tsp.dimension)

\* the scenario set of the configuration with index i
ScenariosOf(i) == Range(optTests[i + 1].scenarios)

\* the summed cost of the scenarios that are in exactly one of two sets
SymmetricDifferenceCost(a, b) ==
  LET diff == (a \ b) \cup (b \ a)
      cost == optIn.cost_map.scenarios
  IN  SumOver(diff, [e \in diff |-> IF e \in DOMAIN cost THEN cost[e] ELSE 0])

\* C13: for all configuration indices i, j the distance is the summed
\* scenario cost of the symmetric difference of the two scenario sets, it
\* is symmetric and zero for i = j, and the cell read is row max(i, j),
\* column min(i, j), inside the stored lower triangle
C13_DistanceIsSymmetricDifference ==
  TourBuilt =>
    \A i, j \in 0..(Len(optTests) - 1) :
       LET cell == DistanceCell(i, j)
       IN  /\ cell = <<IF i > j THEN i ELSE j, IF i > j THEN j ELSE i>>
           /\ cell[1] \in DOMAIN tsp.weights
           /\ cell[2] \in DOMAIN tsp.weights[cell[1]]
           /\ cell[2] <= cell[1]
           /\ Distance(tsp.weights, i, j)
                = SymmetricDifferenceCost(ScenariosOf(i), ScenariosOf(j))
           /\ Distance(tsp.weights, i, j) = Distance(tsp.weights, j, i)
           /\ i = j => Distance(tsp.weights, i, j) = 0

\* five configurations, two of them apart by a priced and an unpriced
\* scenario in opposite directions
C13_Witness ==
  /\ TourBuilt
  /\ tsp.dimension = 5
  /\ \E i, j \in 1..4 :
        /\ ScenariosOf(i) \ ScenariosOf(j) = {<<"2">>}
        /\ ScenariosOf(j) \ ScenariosOf(i) = {<<"3">>}
        /\ Distance(tsp.weights, i, j) > 0

\* run has returned its result object and render has not yet touched it
Emitted == opc = "returned" /\ result.type = "dict"

\* the test at place k of the rotated tour, place 0 being the first
TourNode(k) == optTests[order[k + 1] + 1]

\* C14: from a rotated tour of n nodes exactly n-1 tests are emitted, with
\* ids 1..n-1 in tour order; the k-th carries the fields of tour node k,
\* apply = scenarios(node k) minus scenarios(node k-1), retract the
\* opposite difference, both sorted ascending; the first emitted test has
\* an empty retract and apply equal to its scenarios
C14_Emission ==
  Emitted =>
    LET n == Len(order)
    IN  /\ Len(result.tests) = n - 1
        /\ \A k \in 1..(n - 1) :
              LET t == result.tests[k]
                  node == TourNode(k)
                  before == Range(TourNode(k - 1).scenarios)
                  here == Range(node.scenarios)
              IN  /\ t.id = k
                  /\ DOMAIN t = DOMAIN node \cup {"id", "apply", "retract"}
                  /\ \A f \in DOMAIN node \ {"id"} : t[f] = node[f]
                  /\ Range(t.apply) = here \ before
                  /\ Range(t.retract) = before \ here
                  /\ StrictlySorted(t.apply)
                  /\ StrictlySorted(t.retract)
                  /\ k = 1 => t.retract = <<>> /\ t.apply = t.scenarios

\* four tests emitted in an order other than the file's, one of them with
\* scenarios both to apply and to retract
C14_Witness ==
  /\ Emitted
  /\ Len(result.tests) = 4
  /\ order # <<0, 1, 2, 3, 4>>
  /\ \E k \in 2..4 :
        /\ result.tests[k].apply # <<>>
        /\ result.tests[k].retract # <<>>

\* the places of a list of tests at which the uuid is u
Carrying(list, u) ==
  {k \in 1..Len(list) : "uuid" \in DOMAIN list[k] /\ list[k].uuid = u}

\* C15: the emitted tests carry the uuids of the input tests, each as often
\* as the input does; every input test is emitted exactly once with its
\* uuid, scenario set and quantities unchanged; and every optimized row
\* has exactly one row of render's unoptimized sequence with its uuid
C15_UuidPreserved ==
  (opc \in {"returned", "reported"} /\ result.type = "dict") =>
    LET input == optIn.tests_data
        unopt == Unoptimized(input)
    IN  /\ \A k \in 1..Len(result.tests) : "uuid" \in DOMAIN result.tests[k]
        /\ Len(result.tests) = Len(input)
        /\ \A m \in 1..Len(input) :
              LET emitted == Carrying(result.tests, input[m].uuid)
              IN  /\ Cardinality(emitted)
                      = Cardinality(Carrying(input, input[m].uuid))
                  /\ Cardinality(emitted) = 1
                  /\ \A k \in emitted :
                        /\ Range(result.tests[k].scenarios)
                             = Range(input[m].scenarios)
                        /\ result.tests[k].quantities = input[m].quantities
        /\ \A k \in 1..Len(result.tests) :
              Cardinality(Carrying(unopt, result.tests[k].uuid)) = 1
        /\ opc = "reported" =>
              \A k \in 1..Len(result.tests) :
                 \A m \in Carrying(unopt, result.tests[k].uuid) :
                    result.tests[k].id = unopt[m].id

\* render has given the optimized tests the ids of the unoptimized
\* sequence, and the first optimized test is not the first of the file
C15_Witness ==
  /\ opc = "reported"
  /\ result.type = "dict"
  /\ Len(result.tests) = 4
  /\ result.tests[1].id # 1
  /\ result.tests[1].uuid = optIn.tests_data[result.tests[1].id].uuid

\* render has shown the cost summaries of both sequences
Reported == opc = "reported" /\ report.type = "metrics"

\* the number of tests of a list whose list under key names scenario e
Uses(list, key, e) ==
  Cardinality({k \in 1..Len(list) : e \in Range(list[k][key])})

\* the price of every priced scenario times the number of tests whose
\* list under key names it
PricedUses(list, key) ==
  LET cost == optIn.cost_map.scenarios
  IN  SumOver(DOMAIN cost, [e \in DOMAIN cost |-> cost[e] * Uses(list, key, e)])

\* the claimed summary of a sequence of annotated tests
ClaimedCosts(list, summary) ==
  LET cost == optIn.cost_map.scenarios
      last == Range(list[Len(list)].scenarios) \cap DOMAIN cost
  IN  /\ summary.total_apply_cost = PricedUses(list, "apply")
      /\ summary.total_retract_cost
           = PricedUses(list, "retract") + SumOver(last, [e \in last |-> cost[e]])
      /\ summary.total_combined_cost
           = summary.total_apply_cost + summary.total_retract_cost

Known(list, cost) == SelectSeq(list, LAMBDA e : e \in DOMAIN cost)

\* a test without the unpriced scenarios in its lists and without its
\* unpriced quantities
StripTest(t) ==
  LET cost == optIn.cost_map.scenarios
      priced == DOMAIN t.quantities \cap DOMAIN optIn.cost_map.observations
  IN  [f \in DOMAIN t |->
         IF f \in {"scenarios", "apply", "retract"} THEN Known(t[f], cost)
         ELSE IF f = "quantities" THEN [q \in priced |-> t.quantities[q]]
         ELSE t[f]]

StripTests(list) == [k \in 1..Len(list) |-> StripTest(list[k])]

\* C17: an id without entry in the cost table counts 0 and raises nothing:
\* no call ends in an exception, only a malformed file makes the entry
\* point return 1, and the weights, the observation cost and the totals
\* of calculate_costs are those of the same tests without the unpriced ids
C17_UnknownIdsCostNothing ==
  /\ opc # "raised"
  /\ result = IntOne =>
        \/ optIn.cost_map = MalformedCostMap
        \/ optIn.tests_data = MalformedTests
  /\ TourBuilt =>
        tsp.weights = MakeWeights(StripTests(optTests),
                                  optIn.cost_map.scenarios)
  /\ Emitted =>
        result.observation_cost
          = ObservationCost(StripTests(optTests), optIn.cost_map.observations)
  /\ Reported =>
        /\ report.costs
             = CalculateCosts(StripTests(report.unopt_tests), optIn.cost_map)
        /\ report.opt_costs
             = CalculateCosts(StripTests(result.tests), optIn.cost_map)

\* a report on tests that apply and retract the unpriced scenario 3, end
\* on a configuration holding it, and observe the unpriced quantity q9
C17_Witness ==
  /\ Reported
  /\ \E k \in 1..Len(result.tests) : <<"3">> \in Range(result.tests[k].apply)
  /\ \E k \in 1..Len(result.tests) : <<"3">> \in Range(result.tests[k].retract)
  /\ <<"3">> \in Range(report.unopt_tests[Len(report.unopt_tests)].scenarios)
  /\ \E k \in 1..Len(result.tests) :
        <<"q", "9">> \in DOMAIN result.tests[k].quantities

(* ------------------------- the rendering: claims ----------------------- *)
\* C18: an empty requirements list makes generate_tests return an empty
\* list; prune_tests on an empty list returns an empty list; the optimizer
\* on an empty tests list builds the tour of the empty configuration alone
\* and returns reconfiguration_cost 0 and no tests, without error, with
\* optimize switched on or off
C18_EmptyPipeline ==
  /\ (pc \in {"generated", "pruned"} /\ feed = <<>>) => tests = <<>>
  /\ (pc = "pruned" /\ tests = <<>>) => pruned = <<>>
  /\ (opc # "idle" /\ optIn.tests_data = <<>>) =>
        /\ tsp.tour = (0 :> 0)
        /\ opc # "raised"
        /\ result # IntOne
        /\ opc = "rotated" => order = <<0>>
        /\ opc \in {"returned", "reported"} =>
              /\ result.type = "dict"
              /\ result.reconfiguration_cost = 0
              /\ result.tests = <<>>

\* the rendering of an empty requirements list up to the optimizer's
\* return, the optimizer having gone through its while loop
C18_Witness ==
  /\ feed = <<>>
  /\ pc = "pruned"
  /\ opc = "returned"
  /\ optIn.args.optimize
  /\ ~loop.found_improvement
  /\ result.type = "dict"

\* C19: calculate_costs called with an empty list of tests, as after an
\* optimizer run that emitted no test, returns a cost summary whose three
\* totals are 0 instead of raising
C19_EmptyListReportedAsZero ==
  (opc = "reported" /\ result.type = "dict" /\ result.tests = <<>>) =>
    /\ report.type = "metrics"
    /\ report.opt_costs.total_apply_cost = 0
    /\ report.opt_costs.total_retract_cost = 0
    /\ report.opt_costs.total_combined_cost = 0
    /\ report.costs.total_combined_cost = 0

\* C20: when the cost map file or the tests file given to
\* optimize_test_order is malformed JSON, the call ends in an exception
\* and never gives the caller a value back
C20_ParseErrorPropagated ==
  (/\ opc \in {"returned", "reported"}
   /\ optIn.entry = "optimize_test_order"
   /\ \/ optIn.cost_map = MalformedCostMap
      \/ optIn.tests_data = MalformedTests) =>
    result.type = "raised"

(* ---------------------- the optimizer: further claims ------------------ *)
\* a run has loaded well-formed files
Loaded == opc # "idle" /\ tsp # <<>>

\* the cost of going through the tests in the order of the list optTests,
\* from the empty configuration and back to it
ListOrderCost ==
  LET n == Len(optTests)
  IN  SumSeq([k \in 1..n |->
                SymmetricDifferenceCost(ScenariosOf(k - 1), ScenariosOf(k % n))])

\* C21: on a tour of three or fewer nodes optimize accepts no swap, so the
\* tour and the reconfiguration_cost are those of a run with optimize off:
\* the identity tour and the cost of the list order; for the cost table
\* {1: 10} and the one configuration {1} the reconfiguration_cost is 20
C21_SmallTourUntouched ==
  /\ [][(opc = "scan" /\ tsp.dimension <= 3) => tsp' = tsp]_vars
  /\ []((Loaded /\ tsp.dimension <= 3) =>
          /\ tsp.tour = InitialTour
          /\ tsp.cost = ListOrderCost
          /\ result.type = "dict" =>
                result.reconfiguration_cost = ListOrderCost)
  /\ []((/\ Loaded
         /\ result.type = "dict"
         /\ optIn.cost_map.scenarios = (<<"1">> :> 10)
         /\ Len(optIn.tests_data) = 1
         /\ Range(optIn.tests_data[1].scenarios) = {<<"1">>}) =>
          result.reconfiguration_cost = 20)

\* a run with optimize on over two configurations has examined the pair
\* (0, 2) and returned a positive cost
C21_Witness ==
  /\ Emitted
  /\ optIn.args.optimize
  /\ tsp.dimension = 3
  /\ loop.i = 0
  /\ loop.j = 2
  /\ result.reconfiguration_cost > 0

\* C22: with optimize off and resort off the tour is the identity tour, the
\* tests are emitted in the order of the input list, and the
\* reconfiguration_cost is the initial cost, the sum of the consecutive
\* distances around the cycle 0, 1, ..., n-1, 0
C22_OptimizeOffIsIdentity ==
  (Loaded /\ ~optIn.args.optimize /\ ~optIn.args.resort) =>
    /\ opc \notin {"while", "scan", "raised"}
    /\ tsp.tour = InitialTour
    /\ tsp.cost = ListOrderCost
    /\ opc \in {"rotated", "returned"} => order = [k \in 1..tsp.dimension |-> k - 1]
    /\ opc = "returned" =>
          /\ result.type = "dict"
          /\ result.reconfiguration_cost = ListOrderCost
          /\ Len(result.tests) = Len(optIn.tests_data)
          /\ \A k \in 1..Len(result.tests) :
                /\ result.tests[k].uuid = optIn.tests_data[k].uuid
                /\ result.tests[k].scenarios = optIn.tests_data[k].scenarios

\* a run with optimize off has returned four tests in the order of a file
\* that a run with optimize on would reorder
C22_Witness ==
  /\ Emitted
  /\ ~optIn.args.optimize
  /\ ~optIn.args.resort
  /\ Len(result.tests) = 4
  /\ \E i \in 0..2 : \E j \in (i + 2)..4 : CostDelta(tsp, i, j) < 0

\* C23: TSP2Opt.optimize terminates on every weight matrix make_weights
\* builds: once entered, the loops are left after finitely many passes
C23_OptimizeTerminates == (opc \in {"while", "scan"}) ~> (opc = "optimized")

\* optimize has returned after more than one pass, having accepted a swap
C23_Witness ==
  /\ opc = "optimized"
  /\ optIn.args.optimize
  /\ tsp.dimension = 5
  /\ tsp.tour # InitialTour
  /\ ~loop.found_improvement

\* optimize was called and has returned
Optimized ==
  /\ opc \in {"optimized", "rotated", "returned", "reported"}
  /\ tsp # <<>>
  /\ optIn.args.optimize

\* the change of the cycle length when the edges after the places i and j
\* of the final tour are exchanged
Delta(i, j) ==
  LET n == tsp.dimension
      dist(a, b) == Distance(tsp.weights, a, b)
  IN  dist(tsp.tour[i], tsp.tour[j])
        + dist(tsp.tour[i + 1], tsp.tour[(j + 1) % n])
        - dist(tsp.tour[i], tsp.tour[i + 1])
        - dist(tsp.tour[j], tsp.tour[(j + 1) % n])

\* C24: when optimize has returned, no scanned move improves the tour: for
\* every i in 0..n-2 and j in i+2..n-1 the delta is not negative
C24_LocallyOptimal ==
  Optimized =>
    \A i \in 0..(tsp.dimension - 2) :
       \A j \in (i + 2)..(tsp.dimension - 1) : Delta(i, j) >= 0

\* optimize has returned a tour that differs from the initial one, which
\* had an improving move
C24_Witness ==
  /\ Optimized
  /\ opc = "optimized"
  /\ tsp.tour # InitialTour
  /\ tsp.cost < InitialCost(tsp.weights, InitialTour, tsp.dimension)
  /\ \E i \in 0..3 : \E j \in (i + 2)..4 : Delta(i, j) > 0

\* the pair examined after (i, j) in a pass over n nodes, in the
\* lexicographic order of the pairs with j >= i + 2
NextPair(i, j, n) == IF j < n - 1 THEN <<i, j + 1>> ELSE <<i + 1, i + 3>>

\* the last pair of a pass over n nodes
LastPair(n) == <<n - 3, n - 1>>

\* C25: a pass examines the pairs (i, j), i from 0 to n-2 and j from i+2 to
\* n-1, in lexicographic order, each once, starting at (0, 2); after an
\* accepted swap the scan goes on at the successor of the pair, on the
\* modified tour, without restart and without leaving the j loop; a new
\* pass starts only when the pass has gone through the last pair
C25_ScanOrder ==
  /\ [][(opc = "while" /\ opc' = "scan") =>
          /\ <<loop'.i, loop'.j>> = <<0, 2>>
          /\ tsp' = tsp]_vars
  /\ [][opc = "scan" =>
          LET here == <<loop.i, loop.j>>
              n == tsp.dimension
          IN  /\ 0 <= loop.i /\ loop.i + 2 <= loop.j /\ loop.j <= n - 1
              /\ IF here = LastPair(n)
                 THEN opc' = "while"
                 ELSE /\ opc' = "scan"
                      /\ <<loop'.i, loop'.j>> = NextPair(loop.i, loop.j, n)
              /\ AcceptedSwap =>
                    /\ tsp'.tour # tsp.tour
                    /\ loop'.found_improvement]_vars

\* the scan stands at the pair (0, 3) of five nodes, a swap having been
\* accepted at (0, 2) in this pass
C25_Witness ==
  /\ opc = "scan"
  /\ tsp.dimension = 5
  /\ loop.i = 0
  /\ loop.j = 3
  /\ loop.found_improvement
  /\ tsp.tour = SwapEdges(InitialTour, 0, 2)

\* new is old with the segment of the places i+1..j reversed and all other
\* places as they were
Reversed(old, new, i, j) ==
  /\ DOMAIN new = DOMAIN old
  /\ \A k \in 0..(j - i - 1) : new[i + 1 + k] = old[j - k]
  /\ \A p \in DOMAIN old : (p <= i \/ p > j) => new[p] = old[p]

\* C26: swap_edges(i, j) with 0 <= i and i+2 <= j <= n-1 reverses exactly
\* the segment tour[i+1..j]: the new entry at i+1+k is the old entry at
\* j-k, and the places up to i and after j are unchanged; this holds for
\* every such pair on every tour the optimizer holds, and for every swap
\* optimize accepts
C26_SwapReversesSegment ==
  /\ [](TourBuilt =>
          \A i \in 0..(tsp.dimension - 3) :
             \A j \in (i + 2)..(tsp.dimension - 1) :
                Reversed(tsp.tour, SwapEdges(tsp.tour, i, j), i, j))
  /\ [][AcceptedSwap => Reversed(tsp.tour, tsp'.tour, loop.i, loop.j)]_vars

\* a tour of five nodes in which optimize has reversed a segment of three
\* places, so that the ends changed place around a fixed middle
C26_Witness ==
  /\ TourBuilt
  /\ tsp.dimension = 5
  /\ \E i \in 0..1 : /\ tsp.tour[i + 1] > tsp.tour[i + 3]
                      /\ tsp.tour[i + 2] = i + 2
                      /\ tsp.tour[i] = i

\* C27: whatever the flags optimize, resort and concorde, tests[0] is the
\* empty configuration with id 0 and tour[0] = 0 in every state of
\* optimize; so the search for the empty configuration ends at position 0,
\* where no test without id is looked at, the rotation leaves the tour as
\* it is, and no run ends in the error of a configuration not found
C27_EmptyConfigurationStays ==
  Loaded =>
    /\ optTests[1] = EmptyConfiguration
    /\ \A k \in 2..Len(optTests) : "id" \notin DOMAIN optTests[k]
    /\ tsp.tour[0] = 0
    /\ FindInit(optTests, tsp.tour, 0) = [raised |-> "no", init_idx |-> 0]
    /\ opc # "raised"
    /\ result.type \in {"none", "dict"}
    /\ opc \in {"rotated", "returned", "reported"} =>
          order = [k \in 1..tsp.dimension |-> tsp.tour[k - 1]]

\* a run with resort and concorde on has shuffled two tests, gone through
\* optimize and rotated the tour
C27_Witness ==
  /\ opc = "rotated"
  /\ optIn.args.resort
  /\ optIn.args.concorde
  /\ optIn.args.optimize
  /\ tsp.dimension = 3
  /\ optTests[2].uuid = 2

\* C28: with optimize on the cost never exceeds the cost of the initial
\* tour, and the reconfiguration_cost returned is at most that cost, which
\* is the cost of going through the tests in the order of the input from
\* the empty configuration and back, the combined cost render reports for
\* its unoptimized sequence
C28_NeverWorse ==
  (Loaded /\ optIn.args.optimize) =>
    /\ tsp.cost <= ListOrderCost
    /\ result.type = "dict" => result.reconfiguration_cost <= ListOrderCost
    /\ Reported =>
          /\ report.costs.total_combined_cost = ListOrderCost
          /\ result.reconfiguration_cost <= report.costs.total_combined_cost

\* render has reported an optimized order that is strictly cheaper than
\* the order of the file by the optimizer's own cost
C28_Witness ==
  /\ Reported
  /\ optIn.args.optimize
  /\ tsp.tour # InitialTour
  /\ result.reconfiguration_cost < ListOrderCost

\* C29: for a non-empty list of tests the reconfiguration_cost of the
\* optimizer, the cycle length of its tour, equals the total_combined_cost
\* calculate_costs computes over the emitted tests: the apply and retract
\* costs along the path plus the retraction of the last configuration
C29_CostComputationsAgree ==
  /\ (Emitted /\ result.tests # <<>>) =>
        CalculateCosts(result.tests, optIn.cost_map).total_combined_cost
          = result.reconfiguration_cost
  /\ Reported => report.opt_costs.total_combined_cost
                   = result.reconfiguration_cost

\* render has reported the costs of a reordered sequence of four tests
\* that retracts and ends on priced scenarios
C29_Witness ==
  /\ Reported
  /\ Len(result.tests) = 4
  /\ tsp.tour # InitialTour
  /\ \E k \in 1..4 : result.tests[k].retract # <<>>
  /\ report.opt_costs.total_retract_cost > 0
  /\ report.opt_costs.total_combined_cost = result.reconfiguration_cost

(* ----------------------- prune_tests: further claims ------------------- *)
\* the place in the generated list of the test with the uuid of pruned[k]
Origin(k) == CHOOSE m \in 1..Len(tests) : tests[m].uuid = pruned[k].uuid

\* C30: prune_tests changes only quantity maps and the membership of the
\* list it was given and returns: every surviving Test is a generated Test
\* with its uuid, config_digest, scenarios, requirements_direct and
\* quantities_direct as generated, quantities_direct also when a quantity
\* it lists was deleted; its quantity map has lost entries and
\* requirements only; and the surviving Tests are in their former order
C30_PruneFrame ==
  pc = "pruned" =>
    /\ \A k \in 1..Len(pruned) :
          /\ \E m \in 1..Len(tests) : tests[m].uuid = pruned[k].uuid
          /\ DOMAIN pruned[k] = DOMAIN tests[Origin(k)]
          /\ \A f \in DOMAIN pruned[k] \ {"quantities"} :
                pruned[k][f] = tests[Origin(k)][f]
          /\ DOMAIN pruned[k].quantities
               \subseteq DOMAIN tests[Origin(k)].quantities
          /\ \A q \in DOMAIN pruned[k].quantities :
                Range(pruned[k].quantities[q].requirements)
                  \subseteq Range(tests[Origin(k)].quantities[q].requirements)
    /\ \A k, l \in 1..Len(pruned) : k < l => Origin(k) < Origin(l)

\* a surviving Test whose quantities_direct still lists a quantity that
\* was deleted from its quantity map, behind a Test that was removed
C30_Witness ==
  /\ pc = "pruned"
  /\ Len(pruned) < Len(tests)
  /\ \E k \in 1..Len(pruned) :
        /\ Origin(k) > k
        /\ \E q \in Range(pruned[k].quantities_direct) :
              q \notin DOMAIN pruned[k].quantities

====
